---- MODULE Spec2Model ----
(***************************************************************************)
(* A model of the "quicksave" web application (quicksave/app/main.py):     *)
(* the users table and its start-up reconciliation against USER_1..USER_10,*)
(* the session cookie, the login/logout routes, the note and upload save   *)
(* paths and the items table.                                              *)
(*                                                                         *)
(* Representation.                                                         *)
(*  - A str that the code splits or compares (an environment value, a      *)
(*    username, a password) is a sequence of one-character strings.        *)
(*  - A note's text and a blob's bytes are run-length sequences            *)
(*    <<[v |-> value, n |-> count], ...>> in canonical form (no empty run, *)
(*    no two adjacent runs with the same value), so that two of them are   *)
(*    equal exactly when the str/bytes they stand for are equal, and a     *)
(*    50 MiB value is one run.                                             *)
(*  - A password hash is [salt, digest]; the digest of an ideal salted     *)
(*    one-way function is the pair <<salt, password>>.                     *)
(*  - The created_at column is not modelled.                               *)
(***************************************************************************)
EXTENDS Integers, Sequences, FiniteSets, TLC

VARIABLES
    users,      \* table users (init_db): rows [id, username, password_hash]
                \* in rowid order
    userSeq,    \* sqlite_sequence of users: the AUTOINCREMENT high-water mark
    items,      \* table items (init_db): rows [id, user_id, type, content]
                \* in rowid order
    session,    \* the client's signed session cookie: <<>> (no key) or
                \* <<[user_id, username]>> (login_post sets both keys)
    proc,       \* the server process: [running, vars]: whether startup_event
                \* has completed, and USER_1..USER_10 of its os.environ
    up,         \* the handle_upload call in flight (its locals), or Idle
    last        \* the last start-up or request and what it returned; resp is
                \* "reading" while handle_upload has not returned yet

vars == <<users, userSeq, items, session, proc, up, last>>

----------------------------------------------------------------------------
(* Bounds of the model *)

NumSalts == 2        \* distinct salts generate_password_hash may draw
MaxUserId == 3       \* start-ups are cut off once users ids would pass this
MaxItems == 2        \* saves are cut off once the items table holds this many
MaxUploads == 1      \* uploads (handle_upload runs) per behaviour of SpecUpload

----------------------------------------------------------------------------
(* Run-length str / bytes *)

RECURSIVE RLen(_)
RLen(r) == IF r = <<>> THEN 0 ELSE r[1].n + RLen(Tail(r))

\* a + b (bytearray.extend, str/bytes concatenation), kept canonical
RConcat(a, b) ==
    IF a = <<>> THEN b
    ELSE IF b = <<>> THEN a
    ELSE IF a[Len(a)].v = b[1].v
         THEN SubSeq(a, 1, Len(a) - 1)
                \o <<[v |-> b[1].v, n |-> a[Len(a)].n + b[1].n]>>
                \o Tail(b)
         ELSE a \o b

\* r[:k]
RECURSIVE RTake(_, _)
RTake(r, k) ==
    IF k <= 0 \/ r = <<>> THEN <<>>
    ELSE IF r[1].n <= k THEN <<r[1]>> \o RTake(Tail(r), k - r[1].n)
    ELSE <<[v |-> r[1].v, n |-> k]>>

\* r[k:]
RECURSIVE RDrop(_, _)
RDrop(r, k) ==
    IF k <= 0 \/ r = <<>> THEN r
    ELSE IF r[1].n <= k THEN RDrop(Tail(r), k - r[1].n)
    ELSE <<[v |-> r[1].v, n |-> r[1].n - k]>> \o Tail(r)

\* the run-length form of the plain sequence s
RECURSIVE RFromSeq(_)
RFromSeq(s) ==
    IF s = <<>> THEN <<>>
    ELSE RConcat(<<[v |-> s[1], n |-> 1]>>, RFromSeq(Tail(s)))

\* n copies of the plain sequence s, run-length encoded
RECURSIVE RRepeat(_, _)
RRepeat(s, n) ==
    IF n = 0 THEN <<>>
    ELSE RConcat(RFromSeq(s), RRepeat(s, n - 1))

----------------------------------------------------------------------------
(* werkzeug.security, as main.py uses it *)

\* the digest of an ideal salted one-way function
Digest(salt, password) == <<salt, password>>

\* generate_password_hash(password), salt being the random salt it draws
GeneratePasswordHash(password, salt) ==
    [salt |-> salt, digest |-> Digest(salt, password)]

\* check_password_hash(pwhash, password): recompute with the stored salt
CheckPasswordHash(pwhash, password) ==
    pwhash.digest = Digest(pwhash.salt, password)

----------------------------------------------------------------------------
(* load_users_from_env: the declared mapping *)

NumUserVars == 10    \* range(1, 11)

HasColon(s) == \E i \in 1..Len(s) : s[i] = ":"

FirstColon(s) ==
    CHOOSE i \in 1..Len(s) : s[i] = ":" /\ \A j \in 1..(i - 1) : s[j] # ":"

\* user_var.split(':', 1)
SplitColon(s) ==
    [username |-> SubSeq(s, 1, FirstColon(s) - 1),
     password |-> SubSeq(s, FirstColon(s) + 1, Len(s))]

\* A dict str -> str is a sequence of [username, password] in insertion order.
DictKeys(d) == {d[i].username : i \in DOMAIN d}

DictGet(d, k) == d[CHOOSE i \in DOMAIN d : d[i].username = k].password

\* d[k] = v : a new key is appended, an old key keeps its place
DictSet(d, k, v) ==
    IF k \in DictKeys(d)
    THEN [i \in DOMAIN d |->
            IF d[i].username = k THEN [username |-> k, password |-> v] ELSE d[i]]
    ELSE Append(d, [username |-> k, password |-> v])

\* env_users after the loop has handled USER_1..USER_i; an unset variable
\* (None) and an empty one are both <<>>
RECURSIVE EnvUsersUpTo(_, _)
EnvUsersUpTo(env, i) ==
    IF i = 0 THEN <<>>
    ELSE LET prev == EnvUsersUpTo(env, i - 1)
             user_var == env[i]
         IN  IF user_var # <<>> /\ HasColon(user_var)
             THEN DictSet(prev, SplitColon(user_var).username,
                          SplitColon(user_var).password)
             ELSE prev

EnvUsers(env) == EnvUsersUpTo(env, NumUserVars)

(* The environments the specifications start the process with *)

\* os.environ with USER_i = vals[i] for i <= Len(vals), the rest unset
Environ(vals) ==
    [i \in 1..NumUserVars |-> IF i <= Len(vals) THEN vals[i] ELSE <<>>]

Envs ==
    { Environ(<<>>),
      Environ(<< <<"a", ":", "p">> >>),
      Environ(<< <<"a", ":", "q", ":", "r">> >>),
      Environ(<< <<"a", ":", "p">>, <<"b", ":", "p">> >>),
      Environ(<< <<>>, <<"b", ":", "p">> >>),
      Environ(<< <<"a", ":", "p">>, <<"a", "b">>, <<"a", ":", "q", ":", "r">> >>),
      [Environ(<< <<"b", ":", "p">>, <<"a", "b">> >>)
            EXCEPT ![NumUserVars] = <<"a", ":", "p">>] }

\* the environments the whole application is started with
AppEnvs ==
    { Environ(<<>>),
      Environ(<< <<"a", ":", "p">> >>),
      Environ(<< <<"a", ":", "p">>, <<"b", ":", "p">> >>),
      Environ(<< <<>>, <<"b", ":", "p">> >>) }

\* the declared mapping of each environment
Declared == [env \in Envs \cup AppEnvs |-> EnvUsers(env)]

----------------------------------------------------------------------------
(* load_users_from_env: the statements it issues, and the transaction *)

DbUsernames(db_users) == {db_users[i].username : i \in DOMAIN db_users}

DbHash(db_users, username) ==
    db_users[CHOOSE i \in DOMAIN db_users :
                db_users[i].username = username].password_hash

\* variant: the stored hash is compared with the freshly generated one
NeedsUpdateByHashEquality(stored_hash, password, password_hash) ==
    stored_hash # password_hash

\* variant: a changed password is never written
NeedsUpdateNever(stored_hash, password, password_hash) == FALSE

\* elif not check_password_hash(db_users[username]['hash'], password)
NeedsUpdate(stored_hash, password, password_hash) ==
    ~CheckPasswordHash(stored_hash, password)

\* the body of "for username, password in env_users.items()" for one entry
UpsertFor(e, db_users, salt) ==
    LET password_hash == GeneratePasswordHash(e.password, salt)
    IN  IF e.username \notin DbUsernames(db_users)
        THEN <<[op |-> "INSERT", username |-> e.username, hash |-> password_hash]>>
        ELSE IF NeedsUpdate(DbHash(db_users, e.username), e.password, password_hash)
        THEN <<[op |-> "UPDATE", username |-> e.username, hash |-> password_hash]>>
        ELSE <<>>

RECURSIVE Upserts(_, _, _, _)
Upserts(env_users, db_users, salts, i) ==
    IF i > Len(env_users) THEN <<>>
    ELSE UpsertFor(env_users[i], db_users, salts[i])
            \o Upserts(env_users, db_users, salts, i + 1)

\* variant: undeclared users are kept
DeleteForKeepingAll(row, env_users) == <<>>

\* the body of "for username in db_users" for one row
DeleteFor(row, env_users) ==
    IF row.username \notin DictKeys(env_users)
    THEN <<[op |-> "DELETE", username |-> row.username,
            hash |-> row.password_hash]>>
    ELSE <<>>

RECURSIVE Deletes(_, _, _)
Deletes(env_users, db_users, i) ==
    IF i > Len(db_users) THEN <<>>
    ELSE DeleteFor(db_users[i], env_users) \o Deletes(env_users, db_users, i + 1)

\* every cursor.execute of the run that changes the table, in program order
ReconcileStatements(env_users, db_users, salts) ==
    Upserts(env_users, db_users, salts, 1) \o Deletes(env_users, db_users, 1)

\* one cursor.execute inside the open transaction tx = [users, seq, error]
Execute(tx, s) ==
    IF tx.error THEN tx
    ELSE IF s.op = "INSERT"
    THEN IF s.username \in DbUsernames(tx.users)
         THEN [tx EXCEPT !.error = TRUE]    \* UNIQUE constraint: IntegrityError
         ELSE [users |-> Append(tx.users, [id |-> tx.seq + 1,
                                           username |-> s.username,
                                           password_hash |-> s.hash]),
               seq |-> tx.seq + 1,
               error |-> FALSE]
    ELSE IF s.op = "UPDATE"
    THEN [tx EXCEPT !.users =
            [i \in DOMAIN tx.users |->
                IF tx.users[i].username = s.username
                THEN [tx.users[i] EXCEPT !.password_hash = s.hash]
                ELSE tx.users[i]]]
    ELSE [tx EXCEPT !.users =
            SelectSeq(tx.users, LAMBDA row : row.username # s.username)]

\* the first k statements of stmts, executed in order
RECURSIVE ExecuteAll(_, _, _)
ExecuteAll(tx, stmts, k) ==
    IF k = 0 THEN tx
    ELSE Execute(ExecuteAll(tx, stmts, k - 1), stmts[k])

----------------------------------------------------------------------------
(* str.strip, str.encode('utf-8') *)

\* str.isspace of one code point (what str.strip() removes)
IsSpace(cp) ==
    \/ cp \in 9..13 \/ cp \in 28..32 \/ cp \in {133, 160, 5760}
    \/ cp \in 8192..8202 \/ cp \in {8232, 8233, 8239, 8287, 12288}

RECURSIVE LStrip(_)
LStrip(t) ==
    IF t = <<>> THEN <<>>
    ELSE IF IsSpace(t[1].v) THEN LStrip(Tail(t)) ELSE t

RECURSIVE RStripRight(_)
RStripRight(t) ==
    IF t = <<>> THEN <<>>
    ELSE IF IsSpace(t[Len(t)].v) THEN RStripRight(SubSeq(t, 1, Len(t) - 1)) ELSE t

\* content.strip()
Strip(t) == RStripRight(LStrip(t))

\* the UTF-8 bytes of one code point (no surrogates: a request's text has none)
Utf8Bytes(cp) ==
    IF cp < 128 THEN <<cp>>
    ELSE IF cp < 2048 THEN <<192 + (cp \div 64), 128 + (cp % 64)>>
    ELSE IF cp < 65536
    THEN <<224 + (cp \div 4096), 128 + ((cp \div 64) % 64), 128 + (cp % 64)>>
    ELSE <<240 + (cp \div 262144), 128 + ((cp \div 4096) % 64),
           128 + ((cp \div 64) % 64), 128 + (cp % 64)>>

\* content.encode('utf-8')
RECURSIVE Utf8Encode(_)
Utf8Encode(t) ==
    IF t = <<>> THEN <<>>
    ELSE RConcat(IF t[1].v < 128 THEN <<t[1]>>
                 ELSE RRepeat(Utf8Bytes(t[1].v), t[1].n),
                 Utf8Encode(Tail(t)))

----------------------------------------------------------------------------
(* The state *)

ReadSize == 8192                     \* file.read(8192)
MAX_FILE_SIZE == 50 * 1024 * 1024    \* 50 MB limit
HandleUploadRequired == 3            \* file, item_type, session (htmx defaults)

NoFile == [filename |-> "", content |-> <<>>, chunk |-> ReadSize]

Idle == [pc |-> "idle", user_id |-> 0, item_type |-> "", file |-> NoFile,
         content |-> <<>>, pos |-> 0, reads |-> 0]

\* what `last` records of a request: the fields a handler does not use keep
\* these values
Request(op, resp) ==
    [op |-> op, resp |-> resp, stmts |-> <<>>, username |-> <<>>,
     password |-> <<>>, text |-> <<>>, file |-> NoFile, item_type |-> "",
     buffered |-> 0, reads |-> 0]

UnsetEnv == [i \in 1..NumUserVars |-> <<>>]

\* a new data directory, before the process has ever run
Init ==
    /\ users = <<>>
    /\ userSeq = 0
    /\ items = <<>>
    /\ session = <<>>
    /\ proc = [running |-> FALSE, vars |-> UnsetEnv]
    /\ up = Idle
    /\ last = Request("none", "")

----------------------------------------------------------------------------
(* startup_event: init_db (which keeps existing tables) and load_users_from_env *)

\* variant: deleting a user deletes the user's items (ON DELETE CASCADE)
ItemsAfterCascade(rows, table) ==
    SelectSeq(rows, LAMBDA it : \E i \in DOMAIN table : table[i].id = it.user_id)

\* the items table after the run's DELETE FROM users statements: the schema
\* has no ON DELETE clause and foreign keys are off, so items are untouched
ItemsAfterReconcile(rows, table) == rows

NumInserts(stmts) == Len(SelectSeq(stmts, LAMBDA st : st.op = "INSERT"))

\* load_users_from_env in a process started with env; salts[i] is the salt of
\* the i-th generate_password_hash call.  A run that is not interrupted reaches
\* conn.commit(); an interrupted one ends (exception, kill) after `stop`
\* statements, and its open transaction is rolled back.
LoadUsersFromEnv(env, salts, interrupted, stop) ==
    LET env_users == Declared[env]
        stmts == ReconcileStatements(env_users, users, salts)
        done == IF interrupted THEN stop ELSE Len(stmts)
        tx == ExecuteAll([users |-> users, seq |-> userSeq, error |-> FALSE],
                         stmts, done)
        committed == ~interrupted /\ ~tx.error
    IN  /\ done \in 0..Len(stmts)
        /\ userSeq + NumInserts(stmts) <= MaxUserId
        /\ users' = IF committed THEN tx.users ELSE users
        /\ userSeq' = IF committed THEN tx.seq ELSE userSeq
        /\ items' = IF committed THEN ItemsAfterReconcile(items, tx.users) ELSE items
        /\ proc' = [running |-> committed, vars |-> env]
        /\ up' = Idle
        /\ last' = [Request("startup", IF committed THEN "complete" ELSE "failed")
                        EXCEPT !.stmts = SubSeq(stmts, 1, done)]
        /\ UNCHANGED session

Startup(env, salts) == LoadUsersFromEnv(env, salts, FALSE, 0)

StartupInterrupted(env, salts) ==
    \E stop \in 0..(Len(Declared[env]) + Len(users)) :
        LoadUsersFromEnv(env, salts, TRUE, stop)

----------------------------------------------------------------------------
(* The routes.  A request is served only by a process whose start-up ended. *)

SessionUserId(sess) == IF sess = <<>> THEN 0 ELSE sess[1].user_id   \* .get: None is 0

\* @app.get("/login").  template_found: whether open() finds
\* TEMPLATES_DIR/login.html; when it does not, the except FileNotFoundError
\* branch answers the error page with status 500.
LoginGet(template_found) ==
    /\ proc.running
    /\ last' = Request("login_get",
                       IF SessionUserId(session) # 0 THEN "redirect:/"
                       ELSE IF template_found THEN "login.html"
                       ELSE "500:Error: Login page not found.")
    /\ UNCHANGED <<users, userSeq, items, session, proc, up>>

\* SELECT * FROM users WHERE username = ? ; fetchone()
FindByUsername(table, username) ==
    SelectSeq(table, LAMBDA row : row.username = username)

\* variant: any password is accepted for a user that exists
PasswordMatchAlways(found, password) == found # <<>>

\* user and check_password_hash(user['password_hash'], password)
PasswordMatch(found, password) ==
    found # <<>> /\ CheckPasswordHash(found[1].password_hash, password)

\* @app.post("/login")
LoginPost(username, password) ==
    LET found == FindByUsername(users, username)
        ok == PasswordMatch(found, password)
    IN  /\ proc.running
        /\ session' = IF ok THEN <<[user_id |-> found[1].id,
                                     username |-> found[1].username]>>
                      ELSE session
        /\ last' = [Request("login_post",
                            IF ok THEN "Login successful! Redirecting..."
                            ELSE "Invalid username or password.")
                        EXCEPT !.username = username, !.password = password]
        /\ UNCHANGED <<users, userSeq, items, proc, up>>

\* @app.get("/logout")
Logout ==
    /\ proc.running
    /\ session' = <<>>
    /\ last' = Request("logout", "redirect:/login")
    /\ UNCHANGED <<users, userSeq, items, proc, up>>

\* @app.get("/").  template_found: whether open() finds
\* TEMPLATES_DIR/index.html; when it does not, the except FileNotFoundError
\* branch answers the error page with status 500.
Home(template_found) ==
    /\ proc.running
    /\ last' = Request("home",
                       IF SessionUserId(session) = 0 THEN "redirect:/login"
                       ELSE IF template_found THEN "index.html"
                       ELSE "500:Error: Main page template not found.")
    /\ UNCHANGED <<users, userSeq, items, session, proc, up>>

\* save_item: one INSERT INTO items, committed.  The connection never sets
\* PRAGMA foreign_keys, so SQLite does not check user_id against users.
\* No row is ever deleted, so the AUTOINCREMENT id is the row count plus one.
SaveItem(rows, user_id, item_type, content) ==
    Append(rows, [id |-> Len(rows) + 1, user_id |-> user_id,
                  type |-> item_type, content |-> content])

\* variant: the note is trimmed before it is stored
NoteBytesStripped(content) == Utf8Encode(Strip(content))

\* the bytes add_note hands to save_item
NoteBytes(content) == Utf8Encode(content)

\* not content or not content.strip()
NoteIsEmpty(content) == content = <<>> \/ Strip(content) = <<>>

\* @app.post("/add/note")
AddNote(content) ==
    /\ proc.running
    /\ IF SessionUserId(session) = 0
       THEN /\ last' = [Request("add_note", "redirect:/login")
                            EXCEPT !.text = content]
            /\ UNCHANGED items
       ELSE IF NoteIsEmpty(content)
       THEN /\ last' = [Request("add_note", "Note content cannot be empty.")
                            EXCEPT !.text = content]
            /\ UNCHANGED items
       ELSE /\ Len(items) < MaxItems
            /\ items' = SaveItem(items, SessionUserId(session), "note",
                                 NoteBytes(content))
            /\ last' = [Request("add_note", "Note saved successfully!")
                            EXCEPT !.text = content]
    /\ UNCHANGED <<users, userSeq, session, proc, up>>

----------------------------------------------------------------------------
(* handle_upload.  It is a coroutine: one step up to its first
   "await file.read(8192)", then one step per read. *)

Min(a, b) == IF a < b THEN a ELSE b

\* await file.read(size) at offset pos; file.chunk is the most bytes the
\* stream hands over in one read
FileRead(file, pos, size) ==
    RTake(RDrop(file.content, pos), Min(size, file.chunk))

\* variant: the size is not checked inside the loop
OverLimitNever(content) == FALSE

\* if len(content) > MAX_FILE_SIZE
OverLimit(content) == RLen(content) > MAX_FILE_SIZE

\* handle_upload(*args) up to the loop.  Python binds the arguments first:
\* a call that leaves out a parameter without a default raises TypeError.
CallHandleUpload(op, args) ==
    /\ proc.running
    /\ up.pc = "idle"
    /\ IF Len(args) < HandleUploadRequired
       THEN /\ last' = [Request(op, "TypeError") EXCEPT
                            !.file = args[1], !.item_type = args[2]]
            /\ UNCHANGED up
       ELSE IF SessionUserId(args[3]) = 0
       THEN /\ last' = [Request(op, "redirect:/login") EXCEPT
                            !.file = args[1], !.item_type = args[2]]
            /\ UNCHANGED up
       ELSE IF args[1].filename = ""
       THEN /\ last' = [Request(op, "File not provided.") EXCEPT
                            !.file = args[1], !.item_type = args[2]]
            /\ UNCHANGED up
       ELSE /\ Len(items) < MaxUploads
            /\ up' = [Idle EXCEPT !.pc = "reading",
                                  !.user_id = SessionUserId(args[3]),
                                  !.item_type = args[2], !.file = args[1]]
            /\ last' = [Request(op, "reading") EXCEPT
                            !.file = args[1], !.item_type = args[2]]
    /\ UNCHANGED <<users, userSeq, items, session, proc>>

\* one turn of "while chunk := await file.read(8192)", and what follows the
\* loop when the chunk is empty
HandleUploadRead ==
    /\ proc.running
    /\ up.pc = "reading"
    /\ LET chunk == FileRead(up.file, up.pos, ReadSize)
           content == RConcat(up.content, chunk)
       IN  IF chunk = <<>>
           THEN /\ items' = SaveItem(items, up.user_id, up.item_type,
                                     up.content)
                /\ up' = Idle
                /\ last' = [last EXCEPT !.resp = "saved successfully!",
                                        !.buffered = RLen(up.content),
                                        !.reads = up.reads + 1]
           ELSE IF OverLimit(content)
           THEN /\ up' = Idle
                /\ last' = [last EXCEPT !.resp = "File exceeds the 50MB size limit.",
                                        !.buffered = RLen(content),
                                        !.reads = up.reads + 1]
                /\ UNCHANGED items
           ELSE /\ up' = [up EXCEPT !.content = content,
                                    !.pos = up.pos + RLen(chunk),
                                    !.reads = up.reads + 1]
                /\ UNCHANGED <<items, last>>
    /\ UNCHANGED <<users, userSeq, session, proc>>

\* @app.post("/add/image"): return await handle_upload(file, 'image')
AddImage(file) == CallHandleUpload("add_image", <<file, "image">>)

\* @app.post("/add/document"): return await handle_upload(file, 'document')
AddDocument(file) == CallHandleUpload("add_document", <<file, "document">>)

\* @app.post("/add/photo"): return await handle_upload(file, 'photo')
AddPhoto(file) == CallHandleUpload("add_photo", <<file, "photo">>)

\* handle_upload called with all its parameters
HandleUpload(file, item_type) ==
    CallHandleUpload("handle_upload", <<file, item_type, session>>)

----------------------------------------------------------------------------
(* The inputs the specifications draw from *)

\* the salts of one run: one per generate_password_hash call
SaltSeqs(env) == [1..Len(Declared[env]) -> 1..NumSalts]

\* every call draws the same salt
OneSalt(env) == [i \in 1..Len(Declared[env]) |-> 1]

Usernames == { <<"a">>, <<"b">> }
Passwords == { <<"p">>, <<"q", ":", "r">> }

NoteTexts ==
    { <<>>,                                              \* ""
      <<[v |-> 32, n |-> 2]>>,                           \* two spaces
      <<[v |-> 9, n |-> 1], [v |-> 12288, n |-> 1]>>,    \* tab, U+3000
      <<[v |-> 97, n |-> 1]>>,                           \* "a"
      <<[v |-> 32, n |-> 1], [v |-> 97, n |-> 1], [v |-> 10, n |-> 1]>>,
      <<[v |-> 233, n |-> 2], [v |-> 8364, n |-> 1], [v |-> 119070, n |-> 1]>>,
      <<[v |-> 97, n |-> MAX_FILE_SIZE + 1]>> }          \* "a" * (50 MiB + 1)

AppNoteTexts ==
    { <<[v |-> 32, n |-> 2]>>, <<[v |-> 97, n |-> 1]>> }

Contents ==
    { <<>>,
      <<[v |-> 65, n |-> 1], [v |-> 66, n |-> ReadSize]>>,
      <<[v |-> 0, n |-> MAX_FILE_SIZE]>>,
      <<[v |-> 0, n |-> MAX_FILE_SIZE], [v |-> 1, n |-> 1]>>,
      <<[v |-> 0, n |-> 2 * MAX_FILE_SIZE]>> }

\* the most bytes a stream hands over per read: a full read, half a read,
\* and a size that does not divide the ceiling
ChunkSizes == {ReadSize, ReadSize \div 2, 5000}

Files ==
    [filename : {"f.bin"}, content : Contents, chunk : ChunkSizes] \cup {NoFile}

\* for the upload routes: no file, a file of exactly the ceiling, one byte more
AppFiles ==
    { f \in Files : f.chunk = ReadSize
                      /\ RLen(f.content) \in {0, MAX_FILE_SIZE, MAX_FILE_SIZE + 1} }

ItemTypes == {"image", "document", "photo"}

----------------------------------------------------------------------------
(* The application: start-ups and requests *)

Next ==
    \/ \E env \in AppEnvs : Startup(env, OneSalt(env))
    \/ \E env \in AppEnvs : StartupInterrupted(env, OneSalt(env))
    \/ \E template_found \in BOOLEAN : LoginGet(template_found)
    \/ \E u \in Usernames, p \in Passwords : LoginPost(u, p)
    \/ Logout
    \/ \E template_found \in BOOLEAN : Home(template_found)
    \/ \E t \in AppNoteTexts : AddNote(t)
    \/ \E f \in AppFiles : AddImage(f)
    \/ \E f \in AppFiles : AddDocument(f)
    \/ \E f \in AppFiles : AddPhoto(f)

Spec == Init /\ [][Next]_vars

(* Start-up reconciliation alone, from a new data directory *)

NextReconcile ==
    \/ \E env \in Envs : \E salts \in SaltSeqs(env) : Startup(env, salts)
    \/ \E env \in Envs : \E salts \in SaltSeqs(env) : StartupInterrupted(env, salts)

SpecReconcile == Init /\ [][NextReconcile]_vars

(* A state of Spec: started with USER_1=a:p, user a logged in, nothing saved *)

LoggedIn ==
    /\ users = <<[id |-> 1, username |-> <<"a">>,
                  password_hash |-> GeneratePasswordHash(<<"p">>, 1)]>>
    /\ userSeq = 1
    /\ items = <<>>
    /\ session = <<[user_id |-> 1, username |-> <<"a">>]>>
    /\ proc = [running |-> TRUE, vars |-> Environ(<< <<"a", ":", "p">> >>)]
    /\ up = Idle
    /\ last = [Request("login_post", "Login successful! Redirecting...")
                    EXCEPT !.username = <<"a">>, !.password = <<"p">>]

(* The note route, over more texts, from the logged-in state *)

NextNotes ==
    \/ \E t \in NoteTexts : AddNote(t)
    \/ Logout
    \/ \E u \in Usernames, p \in Passwords : LoginPost(u, p)

SpecNotes == LoggedIn /\ [][NextNotes]_vars

(* handle_upload called with file, item_type and session, from the
   logged-in state *)

NextUpload ==
    \/ \E f \in Files, t \in ItemTypes : HandleUpload(f, t)
    \/ HandleUploadRead

SpecUpload == LoggedIn /\ [][NextUpload]_vars

----------------------------------------------------------------------------
(* What the properties below are stated with *)

UserIds(table) == {table[i].id : i \in DOMAIN table}

DictAsSet(d) == {d[i] : i \in DOMAIN d}

AllPasswords == Passwords \cup { <<"q">>, <<>> }

StartupDone(l) == l.op = "startup" /\ l.resp = "complete"

HasStmt(l, op) == \E i \in DOMAIN l.stmts : l.stmts[i].op = op

\* the table holds exactly the usernames of D, once each, and each hash
\* verifies D's password and no other one
TableIs(table, D) ==
    /\ DbUsernames(table) = DictKeys(D)
    /\ Len(table) = Cardinality(DictKeys(D))
    /\ \A i \in DOMAIN table :
          /\ CheckPasswordHash(table[i].password_hash, DictGet(D, table[i].username))
          /\ \A p \in AllPasswords :
                p # DictGet(D, table[i].username)
                    => ~CheckPasswordHash(table[i].password_hash, p)

\* bytes.decode('utf-8') of well-formed input; anything else decodes to a
\* text holding the code point -1
RByteAt(b, i) == RTake(RDrop(b, i - 1), 1)[1].v

RECURSIVE Utf8Decode(_)
Utf8Decode(b) ==
    IF b = <<>> THEN <<>>
    ELSE LET lead == b[1].v
         IN  IF lead < 128 THEN RConcat(<<b[1]>>, Utf8Decode(Tail(b)))
             ELSE LET k == IF lead \in 192..223 THEN 2
                           ELSE IF lead \in 224..239 THEN 3
                           ELSE IF lead \in 240..247 THEN 4 ELSE 0
                      c(i) == RByteAt(b, i) - 128
                  IN  IF k = 0 \/ RLen(b) < k
                         \/ \E i \in 2..k : RByteAt(b, i) \notin 128..191
                      THEN <<[v |-> -1, n |-> 1]>>
                      ELSE RConcat(
                             <<[v |-> IF k = 2 THEN (lead - 192) * 64 + c(2)
                                      ELSE IF k = 3
                                      THEN (lead - 224) * 4096 + c(2) * 64 + c(3)
                                      ELSE (lead - 240) * 262144 + c(2) * 4096
                                             + c(3) * 64 + c(4),
                                n |-> 1]>>,
                             Utf8Decode(RDrop(b, k)))

\* empty, or whitespace only
IsBlank(t) == \A i \in DOMAIN t : IsSpace(t[i].v)

\* rows' is rows with exactly the row it appended
AppendedOne(rows, rows2) ==
    Len(rows2) = Len(rows) + 1 /\ SubSeq(rows2, 1, Len(rows)) = rows

----------------------------------------------------------------------------
(* C1. After load_users_from_env completes, the users table holds exactly
   the usernames of the declared mapping D built from USER_1..USER_10, and
   each stored hash verifies the password D declares for that username and
   no other password, whatever the table held before. *)
C1_ReconcileYieldsDeclared ==
    StartupDone(last) => TableIs(users, Declared[proc.vars])

\* a completed run that both deleted an undeclared user and created a new one
C1_Witness ==
    /\ StartupDone(last)
    /\ HasStmt(last, "DELETE") /\ HasStmt(last, "INSERT")
    /\ users # <<>>

(* C2. Reconciliation is idempotent: a completed run that directly follows
   a completed run with the same declared mapping issues no INSERT, UPDATE
   or DELETE and leaves the users table (ids, usernames, hashes) as it was. *)
C2_ReconcileIdempotent ==
    [][ ( /\ StartupDone(last) /\ StartupDone(last')
          /\ DictAsSet(Declared[proc'.vars]) = DictAsSet(Declared[proc.vars]) )
        => ( last'.stmts = <<>> /\ users' = users /\ userSeq' = userSeq ) ]_vars

\* a completed run over a table that is not empty, which issued no statement
C2_Witness ==
    /\ StartupDone(last)
    /\ last.stmts = <<>>
    /\ Len(users) = 2

\* a row with this username whose stored hash verifies this password
ValidLogin(table, username, password) ==
    \E i \in DOMAIN table :
        /\ table[i].username = username
        /\ CheckPasswordHash(table[i].password_hash, password)

(* C3. login_post establishes a session, with the persisted user's id and
   username, if and only if a user with exactly that username exists and
   the submitted password verifies against its stored hash; for a wrong
   password and for an unknown username alike the session is left as it
   was and the answer is 'Invalid username or password.'. *)
C3_LoginIffValid ==
    [][ last'.op = "login_post" =>
          IF ValidLogin(users, last'.username, last'.password)
          THEN /\ \E i \in DOMAIN users :
                    /\ users[i].username = last'.username
                    /\ session' = <<[user_id |-> users[i].id,
                                     username |-> users[i].username]>>
               /\ last'.resp = "Login successful! Redirecting..."
          ELSE /\ session' = session
               /\ last'.resp = "Invalid username or password." ]_vars

\* an existing user's wrong password, refused while another session is held
C3_Witness ==
    /\ last.op = "login_post"
    /\ last.resp = "Invalid username or password."
    /\ last.username \in DbUsernames(users)
    /\ session # <<>>
    /\ session[1].username # last.username

(* C4. A save whose user id references no row of the users table fails and
   inserts no item, also when the id comes from a session that was
   established before a reconciliation deleted the user. *)
C4_DanglingSaveFails ==
    [][ ( /\ last'.op = "add_note"
          /\ ~IsBlank(last'.text)
          /\ SessionUserId(session) # 0
          /\ SessionUserId(session) \notin UserIds(users) )
        => ( items' = items /\ last'.resp # "Note saved successfully!" ) ]_vars

(* C5. An authenticated upload through add_image, add_document or add_photo
   of a file with a filename: with at most 50 MiB of content it succeeds and
   stores exactly one new item with the route's type, the session's user id
   and the uploaded bytes; with more it fails with the size-limit error and
   stores nothing. *)
C5_UploadRouteStores ==
    [][ ( /\ last'.op \in {"add_image", "add_document", "add_photo"}
          /\ SessionUserId(session) # 0
          /\ last'.file.filename # ""
          /\ last'.resp # "reading" )
        => IF RLen(last'.file.content) <= MAX_FILE_SIZE
           THEN /\ last'.resp = "saved successfully!"
                /\ AppendedOne(items, items')
                /\ items'[Len(items')].type = last'.item_type
                /\ items'[Len(items')].user_id = SessionUserId(session)
                /\ items'[Len(items')].content = last'.file.content
           ELSE /\ last'.resp = "File exceeds the 50MB size limit."
                /\ items' = items ]_vars

(* C6. Every row of the items table has content of at most 50 MiB, whether
   a note or an upload created it. *)
C6_ContentWithinCeiling ==
    \A i \in DOMAIN items : RLen(items[i].content) <= MAX_FILE_SIZE

(* C7. An authenticated add_note with empty or whitespace-only content
   answers with the empty-note error and inserts nothing; with any other
   content it inserts exactly one item of type 'note' for the session's
   user id whose content is the UTF-8 encoding of the text: decoding it
   gives back the submitted text, untrimmed. *)
C7_NoteValidatedAndStored ==
    [][ (last'.op = "add_note" /\ SessionUserId(session) # 0) =>
          IF IsBlank(last'.text)
          THEN /\ items' = items
               /\ last'.resp = "Note content cannot be empty."
          ELSE /\ AppendedOne(items, items')
               /\ items'[Len(items')].type = "note"
               /\ items'[Len(items')].user_id = SessionUserId(session)
               /\ Utf8Decode(items'[Len(items')].content) = last'.text
               /\ last'.resp = "Note saved successfully!" ]_vars

\* a saved note that starts and ends with whitespace, and a saved note of
\* two-, three- and four-byte characters
C7_Witness ==
    /\ last.op = "add_note"
    /\ last.resp = "Note saved successfully!"
    /\ Len(items) = 2
    /\ Utf8Decode(items[1].content)
          = <<[v |-> 32, n |-> 1], [v |-> 97, n |-> 1], [v |-> 10, n |-> 1]>>
    /\ RLen(items[1].content) = 3
    /\ Utf8Decode(items[2].content)
          = <<[v |-> 233, n |-> 2], [v |-> 8364, n |-> 1], [v |-> 119070, n |-> 1]>>
    /\ RLen(items[2].content) = 11

(* C8. The items table is append-only: no start-up, login, logout or save
   changes or removes a row; when load_users_from_env deletes a user, that
   user's items stay as they are. *)
C8_ItemsAppendOnly ==
    [][ /\ Len(items') >= Len(items)
        /\ SubSeq(items', 1, Len(items)) = items ]_vars

\* a completed run that deleted a user whose item is still in the table
C8_Witness ==
    /\ StartupDone(last)
    /\ HasStmt(last, "DELETE")
    /\ \E i \in DOMAIN items : items[i].user_id \notin UserIds(users)

(* C9. In the read loop of handle_upload the buffer is checked after every
   chunk and nothing is read once it is over the ceiling: while the loop
   can still read, the buffer is within the ceiling; the buffer never
   passes the ceiling plus one read (8192 bytes); and the reads of one
   upload are bounded by the ceiling and the chunk size, not by the length
   of the stream. *)
C9_BufferBounded ==
    LET \* the reads that keep the buffer within the ceiling, a last partial
        \* one, and the read that ends the loop
        MaxReads(chunk) == (MAX_FILE_SIZE \div chunk) + 2
    IN
    /\ up.pc = "reading" => RLen(up.content) <= MAX_FILE_SIZE
    /\ RLen(up.content) <= MAX_FILE_SIZE + ReadSize
    /\ last.buffered <= MAX_FILE_SIZE + ReadSize
    /\ up.reads <= MaxReads(up.file.chunk) - 1
    /\ last.reads <= MaxReads(last.file.chunk)

\* a stream of twice the ceiling, refused with ceiling + 8192 bytes buffered
C9_Witness ==
    /\ last.resp = "File exceeds the 50MB size limit."
    /\ RLen(last.file.content) = 2 * MAX_FILE_SIZE
    /\ last.buffered = MAX_FILE_SIZE + ReadSize
    /\ up.pc = "idle"

(* C10. A run of load_users_from_env that is interrupted after some of its
   statements leaves a users table with unique usernames, from which a
   complete run with the same declared mapping ends with exactly the
   declared usernames, each verifying its declared password. *)
C10_AbortThenRerun ==
    /\ [](Len(users) = Cardinality(DbUsernames(users)))
    /\ [][ ( /\ last.op = "startup" /\ last.resp = "failed"
             /\ StartupDone(last')
             /\ DictAsSet(Declared[proc'.vars]) = DictAsSet(Declared[proc.vars]) )
           => TableIs(users', Declared[proc.vars]) ]_vars

\* a run interrupted after two statements, the table not yet as declared
C10_Witness ==
    /\ last.op = "startup" /\ last.resp = "failed"
    /\ Len(last.stmts) = 2
    /\ users # <<>>
    /\ DbUsernames(users) # DictKeys(Declared[proc.vars])

====
